---- MODULE Spec2Model ----
(***************************************************************************)
(* pi-radio: the stream player runner (scripts/radio.py) and the logging   *)
(* setup helper (scripts/utils/logger_utils.py).                           *)
(*                                                                         *)
(* Spec / FairSpec : one run of radio.py's main() with its child player    *)
(*                   process and asynchronous SIGTERM/SIGINT delivery.     *)
(* LogSpec         : the logging helper's API called in any order with any *)
(*                   arguments on any file system.                         *)
(***************************************************************************)
EXTENDS Integers, Sequences, FiniteSets, TLC

(***************************************************************************)
(* Bounds of the model.                                                    *)
(***************************************************************************)
\* Capacity of an OS pipe, in output chunks (the parent never reads while
\* the child runs, so only "less than the child's output or not" matters).
PipeCap == 2
\* Largest number of output chunks a child player writes before it exits.
MaxOutput == 3
\* Signals delivered to one run (each one nests a handler invocation).
MaxSignals == 2
\* The Bluetooth probe counter saturates here (the loop itself is unbounded).
MaxProbes == 2

(***************************************************************************)
(* Program constants.                                                      *)
(***************************************************************************)
STREAM_URL == "https://wamu.cdnstream1.com/wamu.mp3"
GRACE_TIMEOUT == 5
INFO == 20
WARNING == 30

VARIABLES
    \* ---- logging registry (process-wide) and the file system ----
    fs,              \* state of each candidate log directory
    rootHandlers,    \* handlers attached to the root logger
    rootLevel,       \* level of the root logger
    loggerLevel,     \* level of each named logger (0 = NOTSET)
    loggerHandlers,  \* handlers attached to each named logger
    emitted,         \* lines written by the most recent log call
    lastLog,         \* the most recent log call (logger name, level)
    lastSetup,       \* the most recent setup_logging that returned: the logger's
                     \* name, its sinks, and whether the call before it had that name
    lastConfigure,   \* arguments of configure_logger since the last setup
    lastResolve,     \* arguments and result of the most recent _setup_log_file
    \* ---- radio.py ----
    pc,              \* position of main()
    proc,            \* "running" | "exited" | "signalled" (the runner process)
    exitCode,        \* exit code once proc = "exited"
    crashed,         \* an uncaught exception ended the run with a traceback
    handlersInstalled, \* signals whose handler is signal_handler
    logger,          \* global logger (name, "None" before setup)
    already_running, \* result of is_already_running
    which,           \* outcome of each `which` probe of find_audio_player
    player_cmd,      \* result of find_audio_player
    launch_error,    \* Popen raised
    player_process,  \* global handle: "None" | "Popen"
    returncode,      \* Popen.returncode: <<>> (None) or <<rc>>
    btResult,        \* outcome of the most recent bluetoothctl probe
    btProbes,        \* probes made so far (saturating)
    hstack,          \* active signal_handler invocations, innermost last
    sent,            \* signals sent to the child, in order
    child,           \* "none" | "running" | "exited" (the OS process)
    childStatus,     \* wait status of the child once exited
    childToWrite,    \* output the child still wants to write
    pipeFill         \* chunks sitting unread in the captured pipe

logVars == <<fs, rootHandlers, rootLevel, loggerLevel, loggerHandlers,
             emitted, lastLog, lastSetup, lastConfigure, lastResolve>>
runVars == <<pc, proc, exitCode, crashed, handlersInstalled, logger,
             already_running, which, player_cmd, launch_error, player_process,
             returncode, btResult, btProbes, hstack, sent, child, childStatus,
             childToWrite, pipeFill>>
vars == <<logVars, runVars>>

(***************************************************************************)
(* logger_utils.py                                                         *)
(***************************************************************************)
Names == {"radio", "app"}
NoName == "None"
Levels == {INFO, WARNING}
Dirs == {"requested", "home_logs", "caller_dir", "cwd"}
\* "creatable": missing, mkdir succeeds; "uncreatable": missing, mkdir fails.
DirStates == {"writable", "readonly", "creatable", "uncreatable"}
FsStates == {f \in [Dirs -> DirStates] :
                /\ f["caller_dir"] \in {"writable", "readonly"}
                /\ f["cwd"] \in {"writable", "readonly"}}
\* The file systems the calls of the registry start from: any state of the
\* requested directory, the fallback directories all writable or all
\* read-only (ResolveSpec explores the chain on every file system).
LogFsStates == {f \in FsStates :
                   /\ f["home_logs"] \in {"writable", "readonly"}
                   /\ f["caller_dir"] = f["home_logs"]
                   /\ f["cwd"] = f["home_logs"]}
\* The file systems a run of main() starts from: any state of the requested
\* directory, the fallback directories read-only.
RunFsStates == {f \in FsStates :
                   \A d \in Dirs \ {"requested"} : f[d] = "readonly"}

NoPath == [dir |-> "None", stem |-> "None"]
Stdout == [dir |-> "stdout", stem |-> "stdout"]
NoFormat == <<"None", "None">>
CustomFormat == <<"custom", "F">>

\* _get_caller_info: the stem of the caller's file, 'app' when it is unknown.
get_caller_info(caller_known) ==
    IF caller_known THEN "radio" ELSE "app"

\* _get_default_log_file: <DEFAULT_LOG_DIR>/<app_name>.log
get_default_log_file(app_name) ==
    [dir |-> "requested", stem |-> app_name]

\* mkdir of a missing directory, touch and unlink of the marker file.
MkdirTouch(f, d) == f[d] \in {"writable", "creatable"}
\* touch and unlink of the marker file in a directory that is not created.
Touch(f, d) == f[d] = "writable"
Created(f, d) == [f EXCEPT ![d] = "writable"]

\* A plausible slip: the working directory is tried before the caller's.
setup_log_file_cwd_first(log_file, app_name, caller_known, f) ==
    IF MkdirTouch(f, log_file.dir)
    THEN [path |-> log_file, fs |-> Created(f, log_file.dir)]
    ELSE IF MkdirTouch(f, "home_logs")
    THEN [path |-> [dir |-> "home_logs", stem |-> app_name],
          fs |-> Created(f, "home_logs")]
    ELSE IF Touch(f, "cwd")
    THEN [path |-> [dir |-> "cwd", stem |-> app_name], fs |-> f]
    ELSE IF caller_known /\ Touch(f, "caller_dir")
    THEN [path |-> [dir |-> "caller_dir", stem |-> app_name], fs |-> f]
    ELSE [path |-> NoPath, fs |-> f]

\* _setup_log_file: the fallback chain; NoPath is None.
setup_log_file(log_file, app_name, caller_known, f) ==
    IF MkdirTouch(f, log_file.dir)
    THEN [path |-> log_file, fs |-> Created(f, log_file.dir)]
    ELSE IF MkdirTouch(f, "home_logs")
    THEN [path |-> [dir |-> "home_logs", stem |-> app_name],
          fs |-> Created(f, "home_logs")]
    ELSE IF caller_known /\ Touch(f, "caller_dir")
    THEN [path |-> [dir |-> "caller_dir", stem |-> app_name], fs |-> f]
    ELSE IF Touch(f, "cwd")
    THEN [path |-> [dir |-> "cwd", stem |-> app_name], fs |-> f]
    ELSE [path |-> NoPath, fs |-> f]

\* logging.Logger.getEffectiveLevel for a child of the root logger.
EffectiveLevel(reg, name) ==
    IF reg.loggerLevel[name] # 0 THEN reg.loggerLevel[name] ELSE reg.rootLevel

\* logging.Logger.callHandlers: the logger's own handlers, then the root's.
callHandlers(reg, name, level) ==
    LET hs == reg.loggerHandlers[name] \o reg.rootHandlers
        on == SelectSeq(hs, LAMBDA h : level >= h.level)
    IN  IF level >= EffectiveLevel(reg, name)
        THEN [i \in 1..Len(on) |->
                [sink |-> on[i].sink, fmt |-> on[i].fmt]]
        ELSE <<>>

\* A plausible slip: basicConfig without force=True keeps the old handlers.
basicConfig_noforce(reg, handlers, level) ==
    IF reg.rootHandlers = <<>>
    THEN [reg EXCEPT !.rootHandlers = handlers, !.rootLevel = level]
    ELSE reg

\* logging.basicConfig(level, handlers, force=True): the root's handlers are
\* removed, the given ones attached (each already has its formatter).
basicConfig(reg, handlers, level) ==
    [reg EXCEPT !.rootHandlers = handlers, !.rootLevel = level]

\* The registry as one value.
Registry ==
    [fs |-> fs, rootHandlers |-> rootHandlers, rootLevel |-> rootLevel,
     loggerLevel |-> loggerLevel, loggerHandlers |-> loggerHandlers]

NoResolve ==
    [called |-> FALSE, log_file |-> NoPath, app_name |-> NoName,
     caller_known |-> FALSE, fs |-> [d \in Dirs |-> "writable"],
     path |-> NoPath]

\* setup_logging: [raised, reg, name, final, lines]; lines is what its own
\* closing logger.info writes.
\* a is the call's arguments: [log_file, log_level, app_name, console_output,
\* file_output, log_format].
setup_logging(a, caller_known, reg) ==
    LET log_level == a.log_level
        console_output == a.console_output
        file_output == a.file_output
        log_format == a.log_format
        name == IF a.app_name = NoName THEN get_caller_info(caller_known)
                ELSE a.app_name
        file == IF a.log_file = NoPath /\ file_output
                THEN get_default_log_file(name) ELSE a.log_file
        unchanged == [raised |-> TRUE, reg |-> reg, name |-> name,
                      final |-> NoPath, lines |-> <<>>]
    IN  IF file = NoPath
        THEN unchanged      \* os.path.dirname(None): TypeError
        ELSE IF reg.fs[file.dir] = "uncreatable"
        THEN unchanged      \* os.makedirs: PermissionError / OSError
        ELSE
        LET f1 == IF reg.fs[file.dir] = "creatable"
                  THEN Created(reg.fs, file.dir) ELSE reg.fs
            format == IF log_format = NoFormat THEN <<"default", name>>
                      ELSE log_format
            res == IF file_output
                   THEN setup_log_file(file, name, caller_known, f1)
                   ELSE [path |-> NoPath, fs |-> f1]
            handlers ==
                (IF res.path # NoPath
                 THEN <<[sink |-> res.path, fmt |-> format, level |-> 0]>>
                 ELSE <<>>)
                \o (IF console_output
                    THEN <<[sink |-> Stdout, fmt |-> format, level |-> 0]>>
                    ELSE <<>>)
            r1 == [reg EXCEPT !.fs = res.fs, !.loggerHandlers[name] = <<>>]
            r2 == basicConfig(r1, handlers, log_level)
            r3 == [r2 EXCEPT !.loggerLevel[name] = log_level]
        IN  [raised |-> FALSE, reg |-> r3, name |-> name, final |-> res.path,
             lines |-> callHandlers(r3, name, INFO)]

\* configure_logger: level and format go to the named logger's own handlers.
configure_logger(logger_name, log_level, log_format, reg) ==
    LET hs == reg.loggerHandlers[logger_name]
        h1 == IF log_level # 0
              THEN [i \in 1..Len(hs) |-> [hs[i] EXCEPT !.level = log_level]]
              ELSE hs
        h2 == IF log_format # NoFormat
              THEN [i \in 1..Len(h1) |-> [h1[i] EXCEPT !.fmt = log_format]]
              ELSE h1
    IN  [reg EXCEPT !.loggerLevel[logger_name] =
                        IF log_level # 0 THEN log_level ELSE @,
                    !.loggerHandlers[logger_name] = h2]

(***************************************************************************)
(* The helper's API as actions (LogSpec, ResolveSpec).                     *)
(***************************************************************************)
NoSetup == [name |-> NoName, console |-> FALSE, final |-> NoPath, again |-> FALSE]
NoConfigure == [name |-> NoName, level |-> 0, fmt |-> NoFormat]
NoLog == [name |-> NoName, level |-> 0]

\* The calls of setup_logging explored: log_format is left to its default
\* (a custom format enters through configure_logger).
SetupArgs ==
    [log_file : {NoPath, [dir |-> "requested", stem |-> "custom"]},
     log_level : Levels, app_name : {NoName, "app"},
     console_output : BOOLEAN, file_output : BOOLEAN,
     log_format : {NoFormat}]

\* The registry after a call that returned reg.
SetRegistry(reg) ==
    /\ fs' = reg.fs
    /\ rootHandlers' = reg.rootHandlers
    /\ rootLevel' = reg.rootLevel
    /\ loggerLevel' = reg.loggerLevel
    /\ loggerHandlers' = reg.loggerHandlers

\* One call of setup_logging with arguments a.
DoSetup(a, caller_known) ==
    \E r \in {setup_logging(a, caller_known, Registry)} :
        /\ SetRegistry(r.reg)
        /\ emitted' = IF r.raised THEN emitted ELSE r.lines
        /\ lastLog' = IF r.raised THEN lastLog
                      ELSE [name |-> r.name, level |-> INFO]
        /\ lastSetup' =
            IF r.raised THEN lastSetup
            ELSE [name |-> r.name, console |-> a.console_output,
                  final |-> r.final,
                  again |-> lastSetup.name = r.name]
        /\ lastConfigure' = IF r.raised THEN lastConfigure ELSE NoConfigure

\* setup_logging called from a script (its __file__ is known).
CallSetup ==
    /\ \E a \in SetupArgs : DoSetup(a, TRUE)
    /\ UNCHANGED <<lastResolve, runVars>>

\* configure_logger(name, log_level, log_format), and with outputs the
\* console_output / file_output arguments that only log a warning.
CallConfigure ==
    /\ \E name \in Names, level \in Levels \cup {0},
          fmt \in {NoFormat, CustomFormat}, outputs \in BOOLEAN :
          \E reg \in {configure_logger(name, level, fmt, Registry)} :
              /\ SetRegistry(reg)
              /\ lastConfigure' = [name |-> name, level |-> level, fmt |-> fmt]
              /\ emitted' = IF outputs THEN callHandlers(reg, name, WARNING)
                            ELSE emitted
              /\ lastLog' = IF outputs THEN [name |-> name, level |-> WARNING]
                            ELSE lastLog
    /\ UNCHANGED <<lastSetup, lastResolve, runVars>>

\* One log call on a named logger.
CallLog ==
    /\ \E name \in Names, level \in Levels :
          /\ emitted' = callHandlers(Registry, name, level)
          /\ lastLog' = [name |-> name, level |-> level]
    /\ UNCHANGED <<fs, rootHandlers, rootLevel, loggerLevel, loggerHandlers,
                   lastSetup, lastConfigure, lastResolve, runVars>>

\* One direct call of _setup_log_file.
CallSetupLogFile ==
    /\ \E stem \in {"custom"} \cup Names, app_name \in Names,
          caller_known \in BOOLEAN :
          LET log_file == [dir |-> "requested", stem |-> stem]
              r == setup_log_file(log_file, app_name, caller_known, fs)
          IN  /\ fs' = r.fs
              /\ lastResolve' =
                    [called |-> TRUE, log_file |-> log_file,
                     app_name |-> app_name, caller_known |-> caller_known,
                     fs |-> fs, path |-> r.path]
    /\ UNCHANGED <<rootHandlers, rootLevel, loggerLevel, loggerHandlers,
                   emitted, lastLog, lastSetup, lastConfigure, runVars>>

\* The file system changes under the program between two calls.
FsChange ==
    /\ \E d \in Dirs, st \in DirStates :
          /\ [fs EXCEPT ![d] = st] \in FsStates
          /\ fs' = [fs EXCEPT ![d] = st]
    /\ UNCHANGED <<rootHandlers, rootLevel, loggerLevel, loggerHandlers,
                   emitted, lastLog, lastSetup, lastConfigure, lastResolve,
                   runVars>>

RegistryInit ==
    /\ rootHandlers = <<>>
    /\ rootLevel = WARNING
    /\ loggerLevel = [n \in Names |-> 0]
    /\ loggerHandlers = [n \in Names |-> <<>>]
    /\ emitted = <<>>
    /\ lastLog = NoLog
    /\ lastSetup = NoSetup
    /\ lastConfigure = NoConfigure
    /\ lastResolve = NoResolve

(***************************************************************************)
(* radio.py                                                                *)
(***************************************************************************)
players == << <<"mpg123">>, <<"ffplay", "-nodisp", "-autoexit">> >>
NoCmd == [kind |-> "None", cmd |-> <<>>]
RaisedCmd == [kind |-> "raise", cmd |-> <<>>]
\* Outcome of `which <binary>`: found (exit 0), not found (CalledProcessError),
\* or `which` itself cannot be run (FileNotFoundError).
WhichOutcomes == {"ok", "fail", "missing"}
Pids == {1, 2}
current_pid == 1
Signals == {"SIGTERM", "SIGINT"}
BtOutcomes == {"connected", "empty", "nonzero", "timeout", "exception"}

RECURSIVE find_from(_, _)
find_from(i, w) ==
    IF i > Len(players) THEN NoCmd
    ELSE IF w[i] = "ok"
         THEN [kind |-> "cmd", cmd |-> players[i] \o <<STREAM_URL>>]
    ELSE IF w[i] = "fail" THEN find_from(i + 1, w)
    ELSE RaisedCmd

\* A plausible slip: the scan keeps going and returns the last candidate.
RECURSIVE find_last(_, _, _)
find_last(i, w, acc) ==
    IF i > Len(players) THEN acc
    ELSE IF w[i] = "ok"
         THEN find_last(i + 1, w,
                        [kind |-> "cmd", cmd |-> players[i] \o <<STREAM_URL>>])
    ELSE IF w[i] = "fail" THEN find_last(i + 1, w, acc)
    ELSE RaisedCmd

find_audio_player_last(w) == find_last(1, w, NoCmd)

\* find_audio_player, given the outcome w[i] of the probe of candidate i.
find_audio_player(w) == find_from(1, w)

MainRuns == proc = "running" /\ hstack = <<>>

Exit(code) == proc' = "exited" /\ exitCode' = code

\* main: logger = setup_logging(log_level=INFO, console_output=True,
\* file_output=True), called from radio.py.
main_setup_logging ==
    /\ MainRuns /\ pc = "setup"
    /\ LET a == [log_file |-> NoPath, log_level |-> INFO, app_name |-> NoName,
                 console_output |-> TRUE, file_output |-> TRUE,
                 log_format |-> NoFormat]
           r == setup_logging(a, TRUE, Registry)
       IN  /\ DoSetup(a, TRUE)
           /\ IF r.raised
              THEN /\ crashed' = TRUE /\ Exit(1)
                   /\ UNCHANGED <<pc, logger>>
              ELSE /\ logger' = r.name /\ pc' = "install"
                   /\ UNCHANGED <<crashed, proc, exitCode>>
    /\ UNCHANGED <<lastResolve, handlersInstalled, already_running, which,
                   player_cmd, launch_error, player_process, returncode,
                   btResult, btProbes, hstack, sent, child, childStatus,
                   childToWrite, pipeFill>>

\* main: signal.signal(signal.SIGTERM, signal_handler)
main_install_sigterm ==
    /\ MainRuns /\ pc = "install"
    /\ handlersInstalled' = handlersInstalled \cup {"SIGTERM"}
    /\ pc' = "install_int"
    /\ UNCHANGED <<logVars, proc, exitCode, crashed, logger, already_running,
                   which, player_cmd, launch_error, player_process, returncode,
                   btResult, btProbes, hstack, sent, child, childStatus,
                   childToWrite, pipeFill>>

\* main: signal.signal(signal.SIGINT, signal_handler)
main_install_sigint ==
    /\ MainRuns /\ pc = "install_int"
    /\ handlersInstalled' = handlersInstalled \cup {"SIGINT"}
    /\ pc' = "singleton"
    /\ UNCHANGED <<logVars, proc, exitCode, crashed, logger, already_running,
                   which, player_cmd, launch_error, player_process, returncode,
                   btResult, btProbes, hstack, sent, child, childStatus,
                   childToWrite, pipeFill>>

\* is_already_running, and main's sys.exit(0) when it returns True.
is_already_running ==
    /\ MainRuns /\ pc = "singleton"
    /\ \E pgrep \in {"raise", "nonzero", "zero"}, pids \in SUBSET Pids :
          LET other_pids == {pid \in pids : pid # current_pid}
              result == pgrep = "zero" /\ other_pids # {}
          IN  /\ already_running' = result
              /\ IF result
                 THEN Exit(0) /\ UNCHANGED pc
                 ELSE pc' = "bt_probe" /\ UNCHANGED <<proc, exitCode>>
    /\ UNCHANGED <<logVars, crashed, handlersInstalled, logger, which,
                   player_cmd, launch_error, player_process, returncode,
                   btResult, btProbes, hstack, sent, child, childStatus,
                   childToWrite, pipeFill>>

\* A plausible slip: a probe that raised is taken for a connected device.
check_bluetooth_devices_probe_lenient ==
    /\ MainRuns /\ pc = "bt_probe"
    /\ \E o \in BtOutcomes :
          /\ btResult' = o
          /\ pc' = IF o \in {"connected", "exception"} THEN "select"
                   ELSE "bt_sleep"
    /\ btProbes' = IF btProbes < MaxProbes THEN btProbes + 1 ELSE MaxProbes
    /\ UNCHANGED <<logVars, proc, exitCode, crashed, handlersInstalled, logger,
                   already_running, which, player_cmd, launch_error,
                   player_process, returncode, hstack, sent, child,
                   childStatus, childToWrite, pipeFill>>

\* check_bluetooth_devices: one pass of the loop body up to return or sleep.
check_bluetooth_devices_probe ==
    /\ MainRuns /\ pc = "bt_probe"
    /\ \E o \in BtOutcomes :
          /\ btResult' = o
          /\ pc' = IF o = "connected" THEN "select" ELSE "bt_sleep"
    /\ btProbes' = IF btProbes < MaxProbes THEN btProbes + 1 ELSE MaxProbes
    /\ UNCHANGED <<logVars, proc, exitCode, crashed, handlersInstalled, logger,
                   already_running, which, player_cmd, launch_error,
                   player_process, returncode, hstack, sent, child,
                   childStatus, childToWrite, pipeFill>>

\* check_bluetooth_devices: time.sleep(30), then the loop starts over.
check_bluetooth_devices_sleep ==
    /\ MainRuns /\ pc = "bt_sleep"
    /\ pc' = "bt_probe"
    /\ UNCHANGED <<logVars, proc, exitCode, crashed, handlersInstalled, logger,
                   already_running, which, player_cmd, launch_error,
                   player_process, returncode, btResult, btProbes, hstack,
                   sent, child, childStatus, childToWrite, pipeFill>>

\* play_stream: player_cmd = find_audio_player(); return False when None
\* (main then exits 1); an exception of the probe is caught nowhere.
play_stream_select ==
    /\ MainRuns /\ pc = "select"
    /\ \E w \in [1..Len(players) -> WhichOutcomes] :
          LET r == find_audio_player(w)
          IN  /\ which' = w
              /\ player_cmd' = r
              /\ IF r.kind = "raise"
                 THEN crashed' = TRUE /\ Exit(1) /\ UNCHANGED pc
                 ELSE IF r.kind = "None"
                 THEN Exit(1) /\ UNCHANGED <<pc, crashed>>
                 ELSE pc' = "launch" /\ UNCHANGED <<proc, exitCode, crashed>>
    /\ UNCHANGED <<logVars, handlersInstalled, logger, already_running,
                   launch_error, player_process, returncode, btResult,
                   btProbes, hstack, sent, child, childStatus, childToWrite,
                   pipeFill>>

\* play_stream: subprocess.Popen(...): the child is spawned, or Popen raises
\* and `except Exception` returns False (main then exits 1).
play_stream_launch ==
    /\ MainRuns /\ pc = "launch"
    /\ \/ /\ \E out \in 0..MaxOutput : childToWrite' = out
          /\ child' = "running"
          /\ pc' = "assign"
          /\ UNCHANGED <<launch_error, proc, exitCode>>
       \/ /\ launch_error' = TRUE
          /\ Exit(1)
          /\ UNCHANGED <<pc, child, childToWrite>>
    /\ UNCHANGED <<logVars, crashed, handlersInstalled, logger,
                   already_running, which, player_cmd, player_process,
                   returncode, btResult, btProbes, hstack, sent, childStatus,
                   pipeFill>>

\* play_stream: the assignment player_process = <the Popen object>.
play_stream_assign ==
    /\ MainRuns /\ pc = "assign"
    /\ player_process' = "Popen"
    /\ pc' = "poll"
    /\ UNCHANGED <<logVars, proc, exitCode, crashed, handlersInstalled, logger,
                   already_running, which, player_cmd, launch_error,
                   returncode, btResult, btProbes, hstack, sent, child,
                   childStatus, childToWrite, pipeFill>>

\* play_stream: while player_process.poll() is None
play_stream_poll ==
    /\ MainRuns /\ pc = "poll"
    /\ IF child = "exited"
       THEN returncode' = <<childStatus>> /\ pc' = "check"
       ELSE pc' = "sleep" /\ UNCHANGED returncode
    /\ UNCHANGED <<logVars, proc, exitCode, crashed, handlersInstalled, logger,
                   already_running, which, player_cmd, launch_error,
                   player_process, btResult, btProbes, hstack, sent, child,
                   childStatus, childToWrite, pipeFill>>

\* play_stream: time.sleep(1)
play_stream_sleep ==
    /\ MainRuns /\ pc = "sleep"
    /\ pc' = "poll"
    /\ UNCHANGED <<logVars, proc, exitCode, crashed, handlersInstalled, logger,
                   already_running, which, player_cmd, launch_error,
                   player_process, returncode, btResult, btProbes, hstack,
                   sent, child, childStatus, childToWrite, pipeFill>>

\* A plausible slip: main ignores play_stream's result.
play_stream_exit_ignored ==
    /\ MainRuns /\ pc = "check"
    /\ pc' = "done"
    /\ Exit(0)
    /\ UNCHANGED <<logVars, crashed, handlersInstalled, logger,
                   already_running, which, player_cmd, launch_error,
                   player_process, returncode, btResult, btProbes, hstack,
                   sent, child, childStatus, childToWrite, pipeFill>>

\* play_stream: the exit status check, and main's exit: sys.exit(1) when
\* play_stream returned False, the end of the script (0) otherwise.
play_stream_exit ==
    /\ MainRuns /\ pc = "check"
    /\ pc' = "done"
    /\ IF returncode[1] # 0 THEN Exit(1) ELSE Exit(0)
    /\ UNCHANGED <<logVars, crashed, handlersInstalled, logger,
                   already_running, which, player_cmd, launch_error,
                   player_process, returncode, btResult, btProbes, hstack,
                   sent, child, childStatus, childToWrite, pipeFill>>

(***************************************************************************)
(* signal_handler, run on top of whatever main() is doing.                 *)
(***************************************************************************)
Top == hstack[Len(hstack)]
SetTop(f) == [hstack EXCEPT ![Len(hstack)] = f]
InHandler == proc = "running" /\ hstack # <<>>

\* A signal whose handler is installed arrives: signal_handler is entered,
\* also on top of an invocation that is already running.
signal_delivered ==
    /\ proc = "running"
    /\ \E sig \in Signals : sig \in handlersInstalled
    /\ Len(hstack) < MaxSignals
    /\ hstack' = Append(hstack, [hpc |-> "enter", elapsed |-> 0])
    /\ UNCHANGED <<logVars, pc, proc, exitCode, crashed, handlersInstalled,
                   logger, already_running, which, player_cmd, launch_error,
                   player_process, returncode, btResult, btProbes, sent, child,
                   childStatus, childToWrite, pipeFill>>

\* A signal arrives before main has installed its handler: the default
\* disposition ends the process, with no exit code.
signal_default ==
    /\ proc = "running"
    /\ \E sig \in Signals : sig \notin handlersInstalled
    /\ proc' = "signalled"
    /\ UNCHANGED <<logVars, pc, exitCode, crashed, handlersInstalled, logger,
                   already_running, which, player_cmd, launch_error,
                   player_process, returncode, btResult, btProbes, hstack,
                   sent, child, childStatus, childToWrite, pipeFill>>

\* A plausible slip: the handler kills at once, with no terminate.
signal_handler_enter_kill ==
    /\ InHandler /\ Top.hpc = "enter"
    /\ IF player_process = "Popen" /\ child # "exited"
       THEN /\ sent' = Append(sent, "KILL")
            /\ Exit(0)
            /\ UNCHANGED <<returncode, hstack>>
       ELSE /\ returncode' = IF player_process = "Popen"
                             THEN <<childStatus>> ELSE returncode
            /\ Exit(0)
            /\ UNCHANGED <<sent, hstack>>
    /\ UNCHANGED <<logVars, pc, crashed, handlersInstalled, logger,
                   already_running, which, player_cmd, launch_error,
                   player_process, btResult, btProbes, child, childStatus,
                   childToWrite, pipeFill>>

\* signal_handler up to wait(): `if player_process and
\* player_process.poll() is None: player_process.terminate()`, else the
\* closing sys.exit(0).
signal_handler_enter ==
    /\ InHandler /\ Top.hpc = "enter"
    /\ IF player_process = "Popen" /\ child # "exited"
       THEN /\ sent' = Append(sent, "TERM")
            /\ hstack' = SetTop([hpc |-> "wait", elapsed |-> 0])
            /\ UNCHANGED <<returncode, proc, exitCode>>
       ELSE /\ returncode' = IF player_process = "Popen"
                             THEN <<childStatus>> ELSE returncode
            /\ Exit(0)
            /\ UNCHANGED <<sent, hstack>>
    /\ UNCHANGED <<logVars, pc, crashed, handlersInstalled, logger,
                   already_running, which, player_cmd, launch_error,
                   player_process, btResult, btProbes, child, childStatus,
                   childToWrite, pipeFill>>

\* player_process.wait(timeout=5): one more second passes, child alive.
signal_handler_wait_tick ==
    /\ InHandler /\ Top.hpc = "wait"
    /\ child = "running" /\ Top.elapsed < GRACE_TIMEOUT
    /\ hstack' = SetTop([Top EXCEPT !.elapsed = @ + 1])
    /\ UNCHANGED <<logVars, pc, proc, exitCode, crashed, handlersInstalled,
                   logger, already_running, which, player_cmd, launch_error,
                   player_process, returncode, btResult, btProbes, sent, child,
                   childStatus, childToWrite, pipeFill>>

\* wait() returns because the child has exited; then sys.exit(0).
signal_handler_wait_returns ==
    /\ InHandler /\ Top.hpc = "wait"
    /\ child = "exited"
    /\ returncode' = <<childStatus>>
    /\ Exit(0)
    /\ UNCHANGED <<logVars, pc, crashed, handlersInstalled, logger,
                   already_running, which, player_cmd, launch_error,
                   player_process, btResult, btProbes, hstack, sent, child,
                   childStatus, childToWrite, pipeFill>>

\* wait() raises TimeoutExpired: player_process.kill(); then sys.exit(0).
signal_handler_wait_timeout ==
    /\ InHandler /\ Top.hpc = "wait"
    /\ child = "running" /\ Top.elapsed = GRACE_TIMEOUT
    /\ sent' = Append(sent, "KILL")
    /\ Exit(0)
    /\ UNCHANGED <<logVars, pc, crashed, handlersInstalled, logger,
                   already_running, which, player_cmd, launch_error,
                   player_process, returncode, btResult, btProbes, hstack,
                   child, childStatus, childToWrite, pipeFill>>

(***************************************************************************)
(* The child player: Popen(player_cmd, stdout=PIPE, stderr=PIPE,           *)
(* preexec_fn=os.setsid).                                                  *)
(***************************************************************************)
\* The child writes one chunk to its captured pipe; with the pipe full it
\* blocks; with the reading end gone (the parent has exited) it gets SIGPIPE.
child_write ==
    /\ child = "running" /\ childToWrite > 0
    /\ IF proc = "running"
       THEN /\ pipeFill < PipeCap
            /\ pipeFill' = pipeFill + 1
            /\ childToWrite' = childToWrite - 1
            /\ UNCHANGED <<child, childStatus>>
       ELSE /\ child' = "exited"
            /\ childStatus' = -13
            /\ UNCHANGED <<pipeFill, childToWrite>>
    /\ UNCHANGED <<logVars, pc, proc, exitCode, crashed, handlersInstalled,
                   logger, already_running, which, player_cmd, launch_error,
                   player_process, returncode, btResult, btProbes, hstack,
                   sent>>

\* The child has written all of its output and exits.
child_exit ==
    /\ child = "running" /\ childToWrite = 0
    /\ child' = "exited"
    /\ \E rc \in {0, 1} : childStatus' = rc
    /\ UNCHANGED <<logVars, pc, proc, exitCode, crashed, handlersInstalled,
                   logger, already_running, which, player_cmd, launch_error,
                   player_process, returncode, btResult, btProbes, hstack,
                   sent, childToWrite, pipeFill>>

\* The child dies of a SIGTERM it was sent (it may also ignore it).
child_terminated ==
    /\ child = "running"
    /\ \E i \in 1..Len(sent) : sent[i] = "TERM"
    /\ child' = "exited"
    /\ childStatus' = -15
    /\ UNCHANGED <<logVars, pc, proc, exitCode, crashed, handlersInstalled,
                   logger, already_running, which, player_cmd, launch_error,
                   player_process, returncode, btResult, btProbes, hstack,
                   sent, childToWrite, pipeFill>>

\* The child dies of a SIGKILL it was sent.
child_killed ==
    /\ child = "running"
    /\ \E i \in 1..Len(sent) : sent[i] = "KILL"
    /\ child' = "exited"
    /\ childStatus' = -9
    /\ UNCHANGED <<logVars, pc, proc, exitCode, crashed, handlersInstalled,
                   logger, already_running, which, player_cmd, launch_error,
                   player_process, returncode, btResult, btProbes, hstack,
                   sent, childToWrite, pipeFill>>

(***************************************************************************)
(* Specifications.                                                         *)
(***************************************************************************)
RunInit ==
    /\ pc = "setup"
    /\ proc = "running"
    /\ exitCode = -1
    /\ crashed = FALSE
    /\ handlersInstalled = {}
    /\ logger = NoName
    /\ already_running = FALSE
    /\ which = [i \in 1..Len(players) |-> "fail"]
    /\ player_cmd = NoCmd
    /\ launch_error = FALSE
    /\ player_process = "None"
    /\ returncode = <<>>
    /\ btResult = "none"
    /\ btProbes = 0
    /\ hstack = <<>>
    /\ sent = <<>>
    /\ child = "none"
    /\ childStatus = 0
    /\ childToWrite = 0
    /\ pipeFill = 0

Init == fs \in RunFsStates /\ RegistryInit /\ RunInit

LogInit == fs \in LogFsStates /\ RegistryInit /\ RunInit

ResolveInit == fs \in FsStates /\ RegistryInit /\ RunInit

MainStep ==
    \/ main_setup_logging
    \/ main_install_sigterm
    \/ main_install_sigint
    \/ is_already_running
    \/ check_bluetooth_devices_probe
    \/ check_bluetooth_devices_sleep
    \/ play_stream_select
    \/ play_stream_launch
    \/ play_stream_assign
    \/ play_stream_poll
    \/ play_stream_sleep
    \/ play_stream_exit

HandlerStep ==
    \/ signal_handler_enter
    \/ signal_handler_wait_tick
    \/ signal_handler_wait_returns
    \/ signal_handler_wait_timeout

ChildStep ==
    \/ child_write
    \/ child_exit
    \/ child_terminated
    \/ child_killed

Next ==
    \/ MainStep
    \/ HandlerStep
    \/ ChildStep
    \/ signal_delivered
    \/ signal_default

Spec == Init /\ [][Next]_vars

\* The scheduler runs the parent and the child: each keeps taking the steps
\* it can take. Signals and the child's reaction to SIGTERM are not forced.
FairSpec ==
    /\ Spec
    /\ WF_vars(MainStep)
    /\ WF_vars(HandlerStep)
    /\ WF_vars(child_write)
    /\ WF_vars(child_exit)
    /\ WF_vars(child_killed)

LogNext == CallSetup \/ CallConfigure \/ CallLog

LogSpec == LogInit /\ [][LogNext]_vars

ResolveNext == CallSetupLogFile \/ FsChange

ResolveSpec == ResolveInit /\ [][ResolveNext]_vars

(***************************************************************************)
(* Properties.                                                             *)
(***************************************************************************)
Min(S) == CHOOSE x \in S : \A y \in S : x <= y
Has(seq, x) == \E i \in 1..Len(seq) : seq[i] = x

\* A step taken by the innermost running signal_handler itself.
HandlerActs ==
    /\ InHandler
    /\ Len(hstack') = Len(hstack)
    /\ (hstack' # hstack \/ proc' = "exited")

C1_Step ==
    /\ sent' # sent =>
          /\ InHandler /\ player_process = "Popen" /\ child = "running"
          /\ \E s \in {"TERM", "KILL"} : sent' = Append(sent, s)
    /\ sent' = Append(sent, "KILL") =>
          /\ InHandler /\ Top.hpc = "wait"
          /\ Top.elapsed = GRACE_TIMEOUT
          /\ child = "running"
          /\ Has(sent, "TERM")
    /\ (HandlerActs /\ Top.hpc = "enter") =>
          IF player_process = "Popen" /\ child = "running"
          THEN sent' = Append(sent, "TERM")
          ELSE sent' = sent /\ proc' = "exited"
    /\ (HandlerActs /\ Top.hpc = "wait" /\ child = "exited") => sent' = sent

\* C1: in signal_handler, with the child still running (poll() is None),
\* terminate() is sent before any kill(); kill() is sent only when the wait
\* of 5 seconds expired with the child alive, never when the child exited
\* within the grace window; with the child already exited or never started,
\* neither is sent.
C1_GracefulShutdown == [][C1_Step]_vars

C1_Witness ==
    /\ proc = "exited"
    /\ sent = <<"TERM", "KILL">>
    /\ hstack # <<>>

\* C2: a run of main() that exits does so with code 0 or 1: 0 when the child
\* exited with 0, when is_already_running returned True or when a signal was
\* handled after the handlers were installed; 1 when find_audio_player
\* returned None, when the launch raised, or when the child exited non-zero,
\* no signal having been handled.
C2_ExitCodes ==
    proc = "exited" =>
        /\ exitCode \in {0, 1}
        /\ (child = "exited" /\ childStatus = 0) => exitCode = 0
        /\ already_running => exitCode = 0
        /\ hstack # <<>> => exitCode = 0
        /\ (hstack = <<>> /\ pc = "select" /\ player_cmd = NoCmd)
              => exitCode = 1
        /\ (hstack = <<>> /\ launch_error) => exitCode = 1
        /\ (hstack = <<>> /\ returncode # <<>> /\ returncode[1] # 0)
              => exitCode = 1

C2_Witness ==
    /\ proc = "exited" /\ exitCode = 1
    /\ pc = "done" /\ returncode = <<1>> /\ hstack = <<>>

\* The candidate directories of _setup_log_file in their fixed order; the
\* caller's directory is a candidate only when the caller's file is known.
CandidateOrder == <<"requested", "home_logs", "caller_dir", "cwd">>
Usable(r, d) ==
    IF d \in {"requested", "home_logs"}
    THEN r.fs[d] \in {"writable", "creatable"}
    ELSE IF d = "caller_dir"
    THEN r.caller_known /\ r.fs[d] = "writable"
    ELSE r.fs[d] = "writable"

\* C3: _setup_log_file returns the path in the first writable candidate in
\* the order requested directory, ~/logs, caller's directory, working
\* directory: the requested path itself for the first, <app_name>.log under
\* the directory for the others, and None exactly when none is writable.
C3_FirstWritable ==
    lastResolve.called =>
        LET r == lastResolve
            usable == {i \in 1..Len(CandidateOrder) :
                          Usable(r, CandidateOrder[i])}
        IN  /\ (r.path = NoPath) <=> (usable = {})
            /\ usable # {} =>
                  /\ r.path.dir = CandidateOrder[Min(usable)]
                  /\ Min(usable) = 1 => r.path = r.log_file
                  /\ Min(usable) > 1 => r.path.stem = r.app_name

C3_Witness ==
    /\ lastResolve.called
    /\ lastResolve.fs["requested"] = "readonly"
    /\ lastResolve.fs["home_logs"] = "writable"
    /\ lastResolve.fs["cwd"] = "writable"
    /\ lastResolve.path = [dir |-> "home_logs", stem |-> lastResolve.app_name]

\* C4: no error is a fatal crash: whatever pgrep, bluetoothctl, `which`,
\* the player launch and the file system do, no uncaught exception leaves
\* setup_logging, find_audio_player, play_stream or main.
C4_NoFatalCrash == ~crashed

\* C5: find_audio_player returns the first candidate, in list order, whose
\* `which` probe succeeds, with the stream URL as the last element, and
\* returns None exactly when every candidate fails resolution.
C5_FirstResolvable ==
    player_cmd.kind # "raise" =>
        LET ok == {i \in 1..Len(players) : which[i] = "ok"}
        IN  /\ (player_cmd = NoCmd) <=> (ok = {})
            /\ ok # {} =>
                  /\ player_cmd.kind = "cmd"
                  /\ SubSeq(player_cmd.cmd, 1, Len(player_cmd.cmd) - 1)
                        = players[Min(ok)]
                  /\ player_cmd.cmd[Len(player_cmd.cmd)] = STREAM_URL

C5_Witness ==
    /\ pc = "launch"
    /\ which = <<"fail", "ok">>
    /\ player_cmd.cmd = <<"ffplay", "-nodisp", "-autoexit", STREAM_URL>>

C6_Gate ==
    (pc \in {"select", "launch", "assign", "poll", "sleep", "check", "done"}
        \/ child # "none")
    => btResult = "connected"

C6_Step ==
    /\ (pc = "bt_probe" /\ pc' # pc) =>
          \/ btResult' = "connected" /\ pc' = "select"
          \/ btResult' # "connected" /\ pc' = "bt_sleep"
    /\ (pc = "bt_sleep" /\ pc' # pc) => pc' = "bt_probe"
    /\ (pc' = "select" /\ pc # "select") => pc = "bt_probe"

\* C6: player selection is never entered and the child never launched before
\* a Bluetooth probe returned exit code 0 with a non-empty device list; every
\* other probe outcome leads to the wait and then to another probe, so
\* check_bluetooth_devices returns only on a successful probe.
C6_BluetoothGate == []C6_Gate /\ [][C6_Step]_vars

C6_Witness ==
    /\ child = "running"
    /\ btProbes >= 2
    /\ btResult = "connected"

\* The sinks the most recent setup_logging enabled.
EnabledSinks ==
    (IF lastSetup.final # NoPath THEN {lastSetup.final} ELSE {})
    \cup (IF lastSetup.console THEN {Stdout} ELSE {})
LinesOn(lines, sink) ==
    Cardinality({i \in 1..Len(lines) : lines[i].sink = sink})

\* C7: after any number of setup_logging calls for one application name, a
\* log call on the returned logger writes exactly one line on each enabled
\* sink (and none elsewhere): exactly one handler set is active.
C7_OneLinePerSink ==
    lastSetup.name # NoName =>
        /\ \A level \in Levels :
              LET lines == callHandlers(Registry, lastSetup.name, level)
              IN  IF level >= loggerLevel[lastSetup.name]
                  THEN /\ \A s \in EnabledSinks : LinesOn(lines, s) = 1
                       /\ Len(lines) = Cardinality(EnabledSinks)
                  ELSE lines = <<>>
        /\ lastLog.name = lastSetup.name =>
              /\ \A i \in 1..Len(emitted) : emitted[i].sink \in EnabledSinks
              /\ \A s \in EnabledSinks : LinesOn(emitted, s) <= 1

C7_Witness ==
    /\ lastSetup.again
    /\ lastLog = [name |-> lastSetup.name, level |-> WARNING]
    /\ lastSetup.console /\ lastSetup.final # NoPath
    /\ Len(emitted) = 2
    /\ LinesOn(emitted, Stdout) = 1
    /\ LinesOn(emitted, lastSetup.final) = 1

\* C8: after setup_logging configured logger N, configure_logger(N, L, F)
\* updates the sinks N writes to: every later log line of N is filtered at
\* level L and formatted with F.
C8_ConfigureUpdatesSinks ==
    (lastConfigure.name # NoName /\ lastConfigure.name = lastSetup.name) =>
        \A level \in Levels :
            LET lines == callHandlers(Registry, lastConfigure.name, level)
            IN  /\ lastConfigure.fmt # NoFormat =>
                      \A i \in 1..Len(lines) : lines[i].fmt = lastConfigure.fmt
                /\ (lastConfigure.level # 0 /\ level < lastConfigure.level)
                      => lines = <<>>

\* C9: whenever the runner exits because of a signal, no child it spawned
\* is left running: the handler has sent terminate (and kill after the grace
\* window) or the child has already exited.
C9_NoChildLeftRunning ==
    (proc = "exited" /\ hstack # <<>> /\ child = "running")
        => Has(sent, "KILL")

\* C10: supervision terminates: once the child runs, the runner eventually
\* stops, whatever amount of output the child writes to its captured pipes.
C10_SupervisionTerminates == (child = "running") ~> (proc # "running")

====
